---------------------------- MODULE Spec2Model ----------------------------
(***************************************************************************)
(* Model of hmmlearn.py: validate_input and the Viterbi decoder viterbi.   *)
(*                                                                         *)
(* Probabilities are exact integers: a table value v stands for v/10, so   *)
(* a joint probability over T observations is an integer in units of       *)
(* 10^-(2T).  Dicts are functions whose DOMAIN is the key set.  Python's   *)
(* 0-based indices are kept for t; sequences are indexed with t + 1.       *)
(***************************************************************************)
EXTENDS Integers, Sequences, FiniteSets, TLC

VARIABLES
    observations,   \* argument: the items of the observation sequence
    obs_type,       \* argument: Python type of observations
    states,         \* argument: the items of the state sequence
    states_type,    \* argument: Python type of states
    start_prob,     \* argument: dict state -> value
    trans_prob,     \* argument: dict state -> dict state -> value
    emit_prob,      \* argument: dict state -> dict symbol -> value
    V,              \* list of dicts, V[t + 1] is Python's V[t]
    path,           \* dict state -> best path ending in it
    new_path,       \* dict being filled for the current layer
    t,              \* index of the layer last started
    i,              \* position of the running "for ... in states" loop
    prev_st,        \* predecessor chosen for the cell computed last
    final_state,    \* state chosen at line 66
    result,         \* returned pair
    err,            \* raised exception
    pc              \* position in viterbi

vars == <<observations, obs_type, states, states_type, start_prob, trans_prob,
          emit_prob, V, path, new_path, t, i, prev_st, final_state, result,
          err, pc>>

inputs == <<observations, obs_type, states, states_type, start_prob,
            trans_prob, emit_prob>>

(***************************************************************************)
(* Bounds and universes of the enumerated inputs.                          *)
(***************************************************************************)
MaxObs == 3

Labels == {"Rainy", "Sunny"}

Symbols == {"walk", "shop"}

Vals == {1, 2}

StartVals == {0, 1}

TypeTags == {"tuple", "list", "str"}

Range(s) == {s[k] : k \in 1..Len(s)}

SeqsUpTo(S, n) == UNION {[1..k -> S] : k \in 0..n}

EmptyDict == [k \in {} |-> 0]

DictSet(d, key, val) ==
    [k \in DOMAIN d \cup {key} |-> IF k = key THEN val ELSE d[k]]

NoError == [type |-> "", args |-> <<>>]

NoResult == [max_prob |-> 0, path |-> <<>>]

(***************************************************************************)
(* Python's ordering of the state labels (str.__lt__), as used by the      *)
(* tuple comparison inside max().                                          *)
(***************************************************************************)
LabelRank(l) == CASE l = "Rainy" -> 1 [] l = "Sunny" -> 2

TupleGreaterProbOnly(a, b) == a[1] > b[1]

TupleGreater(a, b) ==
    \/ a[1] > b[1]
    \/ a[1] = b[1] /\ LabelRank(a[2]) > LabelRank(b[2])

RECURSIVE PyMaxFrom(_, _, _)
PyMaxFrom(cands, k, best) ==
    IF k > Len(cands) THEN best
    ELSE PyMaxFrom(cands, k + 1,
                   IF TupleGreater(cands[k], best) THEN cands[k] ELSE best)

PyMax(cands) == PyMaxFrom(cands, 2, cands[1])

(***************************************************************************)
(* validate_input: the seven assertions, in order.                         *)
(***************************************************************************)
IsSeqType(ty) == ty \in {"list", "tuple"}

StartKeysOk == DOMAIN start_prob = Range(states)

TransKeysOk == DOMAIN trans_prob = Range(states)

TransInnerOk ==
    \A k \in 1..Len(states) : DOMAIN trans_prob[states[k]] = Range(states)

EmitKeysOk == DOMAIN emit_prob = Range(states)

EmitInnerSubset ==
    \A k \in 1..Len(states) :
        Range(observations) \subseteq DOMAIN emit_prob[states[k]]

EmitInnerOk ==
    \A k \in 1..Len(states) :
        DOMAIN emit_prob[states[k]] = Range(observations)

FailedAssert ==
    IF ~IsSeqType(obs_type) THEN 1
    ELSE IF ~IsSeqType(states_type) THEN 2
    ELSE IF ~StartKeysOk THEN 3
    ELSE IF ~TransKeysOk THEN 4
    ELSE IF ~TransInnerOk THEN 5
    ELSE IF ~EmitKeysOk THEN 6
    ELSE IF ~EmitInnerOk THEN 7
    ELSE 0

AssertMessageGeneric(n) == "Invalid input."

AssertMessage(n) ==
    CASE n = 1 -> "Observations must be a list or tuple."
      [] n = 2 -> "States must be a list or tuple."
      [] n = 3 -> "Start probabilities must match states."
      [] n = 4 -> "Transition probabilities must match states."
      [] n = 5 -> "Transition probabilities must be defined for all states."
      [] n = 6 -> "Emission probabilities must match states."
      [] n = 7 -> "Emission probabilities must be defined for all observations."

AssertionError(n) == [type |-> "AssertionError", args |-> <<AssertMessage(n)>>]

IndexError == [type |-> "IndexError", args |-> <<"tuple index out of range">>]

ValueError == [type |-> "ValueError", args |-> <<"max() arg is an empty sequence">>]

(***************************************************************************)
(* Initial states: the arguments of one call of viterbi.                   *)
(***************************************************************************)
Locals ==
    /\ V = <<>>
    /\ path = EmptyDict
    /\ new_path = EmptyDict
    /\ t = 0
    /\ i = 1
    /\ prev_st = ""
    /\ final_state = ""
    /\ result = NoResult
    /\ err = NoError
    /\ pc = "validate"

InitExample ==
    /\ observations = <<"walk", "shop", "clean">>
    /\ obs_type = "tuple"
    /\ states = <<"Rainy", "Sunny">>
    /\ states_type = "tuple"
    /\ start_prob = [Rainy |-> 6, Sunny |-> 4]
    /\ trans_prob = [Rainy |-> [Rainy |-> 7, Sunny |-> 3],
                     Sunny |-> [Rainy |-> 4, Sunny |-> 6]]
    /\ emit_prob = [Rainy |-> [walk |-> 1, shop |-> 4, clean |-> 5],
                    Sunny |-> [walk |-> 6, shop |-> 3, clean |-> 1]]

InitDecode ==
    /\ observations \in SeqsUpTo(Symbols, MaxObs)
    /\ obs_type = "tuple"
    /\ states \in SeqsUpTo(Labels, Cardinality(Labels))
    /\ states_type = "tuple"
    /\ start_prob \in [Range(states) -> StartVals]
    /\ trans_prob \in [Range(states) -> [Range(states) -> Vals]]
    /\ emit_prob \in [Range(states) -> [Range(observations) -> Vals]]

InitShapes ==
    /\ observations \in {<<>>, <<"walk">>, <<"walk", "shop">>}
    /\ obs_type \in TypeTags
    /\ states \in {<<>>, <<"Rainy">>, <<"Sunny">>,
                   <<"Rainy", "Sunny">>, <<"Sunny", "Rainy">>}
    /\ states_type \in TypeTags
    /\ \E ks \in SUBSET Labels : start_prob = [k \in ks |-> 1]
    /\ \E ks \in SUBSET Labels : \E inner \in [ks -> SUBSET Labels] :
           trans_prob = [k \in ks |-> [l \in inner[k] |-> 1]]
    /\ \E ks \in SUBSET Labels : \E inner \in [ks -> SUBSET Symbols] :
           emit_prob = [k \in ks |-> [o \in inner[k] |-> 1]]

Init == (InitExample \/ InitDecode) /\ Locals

InitV == InitShapes /\ Locals

(***************************************************************************)
(* viterbi, one action per step.                                           *)
(***************************************************************************)
\* lines 25-29: validate_input, then V = [{}] and path = {}
Validate ==
    /\ pc = "validate"
    /\ IF FailedAssert # 0
       THEN /\ err' = AssertionError(FailedAssert)
            /\ pc' = "error"
            /\ UNCHANGED <<V, path>>
       ELSE /\ V' = <<EmptyDict>>
            /\ path' = EmptyDict
            /\ pc' = IF Len(states) = 0 THEN "loop" ELSE "init"
            /\ err' = err
    /\ UNCHANGED <<inputs, new_path, t, i, prev_st, final_state, result>>

InitValueNoEmit(state) == start_prob[state]

\* line 35
InitValue(state) == start_prob[state] * emit_prob[state][observations[1]]

\* lines 33-38: one iteration of the base-case loop
InitCell ==
    /\ pc = "init"
    /\ LET state == states[i] IN
       IF Len(observations) = 0
       THEN /\ err' = IndexError
            /\ pc' = "error"
            /\ UNCHANGED <<V, path, i>>
       ELSE /\ V' = [V EXCEPT ![1] = DictSet(@, state, InitValue(state))]
            /\ path' = DictSet(path, state, <<state>>)
            /\ i' = i + 1
            /\ pc' = IF i = Len(states) THEN "loop" ELSE "init"
            /\ err' = err
    /\ UNCHANGED <<inputs, new_path, t, prev_st, final_state, result>>

\* lines 42-44: the head of "for t in range(1, len(observations))"
LoopHead ==
    /\ pc = "loop"
    /\ IF t + 1 < Len(observations)
       THEN /\ t' = t + 1
            /\ V' = Append(V, EmptyDict)
            /\ new_path' = EmptyDict
            /\ i' = 1
            /\ pc' = IF Len(states) = 0 THEN "endlayer" ELSE "recur"
       ELSE /\ pc' = "final"
            /\ UNCHANGED <<t, V, new_path, i>>
    /\ UNCHANGED <<inputs, path, prev_st, final_state, result, err>>

CandidatesNoTrans(current_state) ==
    [k \in 1..Len(states) |->
        <<V[t][states[k]] * emit_prob[current_state][observations[t + 1]],
          states[k]>>]

CandidatesPrevObs(current_state) ==
    [k \in 1..Len(states) |->
        <<V[t][states[k]] * trans_prob[states[k]][current_state]
              * emit_prob[current_state][observations[t]],
          states[k]>>]

\* line 51: the generator handed to max() for current_state
Candidates(current_state) ==
    [k \in 1..Len(states) |->
        <<V[t][states[k]] * trans_prob[states[k]][current_state]
              * emit_prob[current_state][observations[t + 1]],
          states[k]>>]

NewPathEntryStale(prev_state, current_state) ==
    Append(path[current_state], current_state)

NewPathEntryNoAppend(prev_state, current_state) == path[prev_state]

\* line 59
NewPathEntry(prev_state, current_state) ==
    Append(path[prev_state], current_state)

\* lines 48-59: one iteration of the loop over current_state
RecurCell ==
    /\ pc = "recur"
    /\ LET current_state == states[i]
           best == PyMax(Candidates(current_state))
       IN /\ V' = [V EXCEPT ![t + 1] = DictSet(@, current_state, best[1])]
          /\ prev_st' = best[2]
          /\ new_path' = DictSet(new_path, current_state,
                                 NewPathEntry(best[2], current_state))
    /\ i' = i + 1
    /\ pc' = IF i = Len(states) THEN "endlayer" ELSE "recur"
    /\ UNCHANGED <<inputs, path, t, final_state, result, err>>

\* line 63
EndLayer ==
    /\ pc = "endlayer"
    /\ path' = new_path
    /\ pc' = "loop"
    /\ UNCHANGED <<inputs, V, new_path, t, i, prev_st, final_state, result, err>>

\* line 66: the generator handed to the final max()
FinalCandidates == [k \in 1..Len(states) |-> <<V[Len(V)][states[k]], states[k]>>]

\* lines 66-75
Terminate ==
    /\ pc = "final"
    /\ IF Len(states) = 0
       THEN /\ err' = ValueError
            /\ pc' = "error"
            /\ UNCHANGED <<final_state, result>>
       ELSE LET best == PyMax(FinalCandidates) IN
            /\ final_state' = best[2]
            /\ result' = [max_prob |-> best[1], path |-> path[best[2]]]
            /\ pc' = "done"
            /\ err' = err
    /\ UNCHANGED <<inputs, V, path, new_path, t, i, prev_st>>

Next == Validate \/ InitCell \/ LoopHead \/ RecurCell \/ EndLayer \/ Terminate

Spec == Init /\ [][Next]_vars

SpecV == InitV /\ [][Next]_vars

(***************************************************************************)
(* Definitions used to state the properties: the joint probability of a    *)
(* state sequence and the brute-force maximum over all state sequences.    *)
(***************************************************************************)
RECURSIVE JointProb(_, _)
\* joint probability of the first n states of seq with observations[0..n-1]
JointProb(seq, n) ==
    IF n = 1 THEN start_prob[seq[1]] * emit_prob[seq[1]][observations[1]]
    ELSE JointProb(seq, n - 1) * trans_prob[seq[n - 1]][seq[n]]
             * emit_prob[seq[n]][observations[n]]

AllPaths(n) == [1..n -> Range(states)]

MaxOf(S) == CHOOSE m \in S : \A x \in S : x <= m

NonNegative ==
    /\ \A s \in DOMAIN start_prob : start_prob[s] >= 0
    /\ \A s \in DOMAIN trans_prob :
           \A r \in DOMAIN trans_prob[s] : trans_prob[s][r] >= 0
    /\ \A s \in DOMAIN emit_prob :
           \A o \in DOMAIN emit_prob[s] : emit_prob[s][o] >= 0

\* number of layers of V whose loop over the states has finished
CompleteLayers ==
    IF pc \in {"loop", "endlayer", "final", "done"} THEN Len(V)
    ELSE IF pc \in {"init", "recur"} THEN Len(V) - 1
    ELSE 0

\* the stored paths are those of the layer completed last
PathsSettled == pc \in {"loop", "final", "done"}

\* a cell of layer t >= 1 has just been computed, for states[i - 1]
CellJustDone == pc \in {"recur", "endlayer"} /\ i > 1

CandProb(p, c) ==
    V[t][p] * trans_prob[p][c] * emit_prob[c][observations[t + 1]]

FirstIn(S) == states[CHOOSE k \in 1..Len(states) :
                        /\ states[k] \in S
                        /\ \A j \in 1..(k - 1) : states[j] \notin S]

GreatestIn(S) == CHOOSE s \in S : \A r \in S : LabelRank(r) <= LabelRank(s)

\* the previous states giving the maximal product for the cell just computed
BestPrev ==
    LET c == states[i - 1]
        m == MaxOf({CandProb(p, c) : p \in Range(states)})
    IN {p \in Range(states) : CandProb(p, c) = m}

\* the states with the maximal probability in the last layer
BestFinal ==
    LET m == MaxOf({V[Len(V)][s] : s \in Range(states)})
    IN {s \in Range(states) : V[Len(V)][s] = m}

\* the seven conditions of the validator, each on its own
Cond(n) ==
    CASE n = 1 -> obs_type \in {"list", "tuple"}
      [] n = 2 -> states_type \in {"list", "tuple"}
      [] n = 3 -> DOMAIN start_prob = Range(states)
      [] n = 4 -> DOMAIN trans_prob = Range(states)
      [] n = 5 -> \A s \in Range(states) \cap DOMAIN trans_prob :
                      DOMAIN trans_prob[s] = Range(states)
      [] n = 6 -> DOMAIN emit_prob = Range(states)
      [] n = 7 -> \A s \in Range(states) \cap DOMAIN emit_prob :
                      DOMAIN emit_prob[s] = Range(observations)

Conds == 1..7

ViolatesExactly(n) == ~Cond(n) /\ \A m \in Conds \ {n} : Cond(m)

FirstViolated == CHOOSE n \in Conds : ~Cond(n) /\ \A m \in 1..(n - 1) : Cond(m)

ValidationError == pc = "error" /\ err.type = "AssertionError"

NothingComputed == V = <<>> /\ path = EmptyDict /\ result = NoResult

IsExample ==
    /\ observations = <<"walk", "shop", "clean">>
    /\ states = <<"Rainy", "Sunny">>
    /\ start_prob = [Rainy |-> 6, Sunny |-> 4]
    /\ trans_prob = [Rainy |-> [Rainy |-> 7, Sunny |-> 3],
                     Sunny |-> [Rainy |-> 4, Sunny |-> 6]]
    /\ emit_prob = [Rainy |-> [walk |-> 1, shop |-> 4, clean |-> 5],
                    Sunny |-> [walk |-> 6, shop |-> 3, clean |-> 1]]

(***************************************************************************)
(* C1.  Optimality: an input that satisfies the seven conditions and has   *)
(* at least one state and one observation never ends in an error, and when *)
(* viterbi returns on non-negative tables, max_prob is the maximum of the  *)
(* joint probability over all |states|^T state sequences.                  *)
(***************************************************************************)
ValidNonEmpty ==
    /\ \A n \in Conds : Cond(n)
    /\ Len(observations) >= 1
    /\ Len(states) >= 1

C1_Optimality ==
    /\ ValidNonEmpty => pc # "error"
    /\ pc = "done" =>
          /\ ValidNonEmpty
          /\ NonNegative =>
                 result.max_prob =
                     MaxOf({JointProb(s, Len(observations)) :
                                s \in AllPaths(Len(observations))})

C1_Witness ==
    /\ pc = "done"
    /\ NonNegative
    /\ Len(observations) = 3
    /\ Cardinality(Range(states)) = 2
    /\ result.max_prob > 0
    /\ \E s \in AllPaths(3) : JointProb(s, 3) < result.max_prob
    /\ \E s \in AllPaths(3) : JointProb(s, 3) = result.max_prob

(***************************************************************************)
(* C2.  The returned path is a witness of the returned probability: it     *)
(* consists of members of states, ends in the chosen final state, and its  *)
(* own joint probability equals max_prob.                                  *)
(***************************************************************************)
C2_PathIsWitness ==
    pc = "done" =>
        /\ Len(result.path) >= 1
        /\ \A k \in 1..Len(result.path) : result.path[k] \in Range(states)
        /\ result.path[Len(result.path)] = final_state
        /\ JointProb(result.path, Len(result.path)) = result.max_prob

C2_Witness ==
    /\ pc = "done"
    /\ Len(result.path) = 3
    /\ result.path[1] # result.path[2]
    /\ result.max_prob > 0
    /\ \E s \in AllPaths(3) : JointProb(s, 3) # result.max_prob

(***************************************************************************)
(* C3.  Canonical scenario: on the example tables viterbi returns          *)
(* probability 0.01344 (13440 in units of 10^-6) and the path Sunny,       *)
(* Rainy, Rainy.                                                           *)
(***************************************************************************)
C3_Canonical ==
    (IsExample /\ pc = "done") =>
        result = [max_prob |-> 13440, path |-> <<"Sunny", "Rainy", "Rainy">>]

C3_Witness == IsExample /\ pc = "done" /\ final_state = "Rainy"

(***************************************************************************)
(* C7.  Length invariant: the returned path has len(observations)          *)
(* elements, and once layer t is complete every state's stored path has    *)
(* t + 1 elements.                                                         *)
(***************************************************************************)
C7_Length ==
    /\ pc = "done" => Len(result.path) = Len(observations)
    /\ PathsSettled =>
          /\ DOMAIN path = Range(states)
          /\ \A s \in Range(states) : Len(path[s]) = t + 1

C7_Witness ==
    /\ pc = "loop"
    /\ t = 2
    /\ Cardinality(Range(states)) = 2
    /\ \A s \in Range(states) : Len(path[s]) = 3

(***************************************************************************)
(* C10.  Trellis invariant: every cell of a completed layer t holds the    *)
(* maximal joint probability over the state sequences of length t + 1      *)
(* ending in its state; layer 0 is start_prob * emit_prob; a cell of layer *)
(* t >= 1 is the maximum over the cells of layer t - 1; completed layers   *)
(* never change.                                                           *)
(***************************************************************************)
LayerIsOptimal(n) ==
    /\ DOMAIN V[n] = Range(states)
    /\ \A s \in Range(states) :
          /\ V[n][s] = MaxOf({JointProb(q, n) :
                                 q \in {r \in AllPaths(n) : r[n] = s}})
          /\ n = 1 => V[n][s] = start_prob[s] * emit_prob[s][observations[1]]
          /\ n > 1 => V[n][s] =
                 MaxOf({V[n - 1][p] * trans_prob[p][s]
                            * emit_prob[s][observations[n]] :
                        p \in Range(states)})

C10_TrellisState ==
    NonNegative => \A n \in 1..CompleteLayers : LayerIsOptimal(n)

C10_TrellisStable ==
    \A n \in 1..CompleteLayers : Len(V') >= n /\ V'[n] = V[n]

C10_Trellis == []C10_TrellisState /\ [][C10_TrellisStable]_vars

C10_Witness ==
    /\ pc = "recur"
    /\ i = 2
    /\ CompleteLayers = 2
    /\ Cardinality(Range(states)) = 2
    /\ \E s \in Range(states) : \E r \in Range(states) : V[2][s] > V[2][r]
    /\ \E q \in AllPaths(2) : JointProb(q, 2) < V[2][q[2]]

(***************************************************************************)
(* C9.  Tie-break.  As claimed: among the previous states with the         *)
(* maximal product the one occurring first in states is chosen, and        *)
(* likewise for the final state.                                           *)
(***************************************************************************)
C9_FirstOccurrence ==
    /\ CellJustDone => prev_st = FirstIn(BestPrev)
    /\ pc = "done" => final_state = FirstIn(BestFinal)

(***************************************************************************)
(* C9, amended.  Among the previous states with the maximal product the    *)
(* one with the greatest label is chosen, wherever it occurs in states,    *)
(* and likewise for the final state.                                       *)
(***************************************************************************)
C9_GreatestLabel ==
    /\ CellJustDone => prev_st = GreatestIn(BestPrev)
    /\ pc = "done" => final_state = GreatestIn(BestFinal)

C9_Witness ==
    /\ CellJustDone
    /\ Cardinality(BestPrev) = 2
    /\ states = <<"Sunny", "Rainy">>
    /\ prev_st = "Sunny"
    /\ V[t][states[i - 1]] > 0

(***************************************************************************)
(* C4.  Validation rejects malformed input: an input violating exactly one *)
(* of the seven conditions ends in a validation error, with no trellis     *)
(* cell computed and nothing returned.                                     *)
(***************************************************************************)
C4_Rejects ==
    \A n \in Conds :
        (ViolatesExactly(n) /\ pc # "validate") =>
            ValidationError /\ NothingComputed

C4_Witness ==
    /\ ViolatesExactly(7)
    /\ observations = <<"walk">>
    /\ \E s \in Range(states) : DOMAIN emit_prob[s] = {"walk", "shop"}
    /\ ValidationError

(***************************************************************************)
(* C5.  No failure after validation: viterbi never ends in an error other  *)
(* than a validation error.                                                *)
(***************************************************************************)
C5_NoRuntimeError == pc = "error" => err.type = "AssertionError"

(***************************************************************************)
(* C6.  Non-emptiness is enforced by the validator: with an empty          *)
(* observation sequence or an empty state sequence validation fails.       *)
(***************************************************************************)
C6_NonEmptyEnforced ==
    ((Len(observations) = 0 \/ Len(states) = 0) /\ pc # "validate") =>
        ValidationError

(***************************************************************************)
(* C8.  As claimed: a validation error for an inner key-set mismatch of    *)
(* trans_prob[s] or emit_prob[s] names an offending state s.               *)
(***************************************************************************)
C8_NamesOffendingState ==
    (ValidationError /\ FirstViolated \in {5, 7}) =>
        \E s \in Range(states) : \E k \in 1..Len(err.args) :
            /\ err.args[k] = s
            /\ \/ FirstViolated = 5 /\ DOMAIN trans_prob[s] # Range(states)
               \/ FirstViolated = 7 /\ DOMAIN emit_prob[s] # Range(observations)

(***************************************************************************)
(* C8, amended.  A validation error carries exactly the message of the     *)
(* first failed condition, the messages of the seven conditions are        *)
(* pairwise different, and the error carries no state.                     *)
(***************************************************************************)
C8_IdentifiesCheck ==
    ValidationError =>
        /\ err.args = <<AssertMessage(FirstViolated)>>
        /\ \A m \in Conds \ {FirstViolated} :
               AssertMessage(m) # AssertMessage(FirstViolated)
        /\ \A k \in 1..Len(err.args) : err.args[k] \notin Labels

C8_Witness ==
    /\ ValidationError
    /\ FirstViolated = 5
    /\ states = <<"Rainy", "Sunny">>
    /\ DOMAIN trans_prob["Rainy"] = Labels
    /\ DOMAIN trans_prob["Sunny"] # Labels

=============================================================================
